---------------------------- MODULE Spec2Model ----------------------------
(***************************************************************************)
(* A model of the JSON-RPC request pipeline of jsonrpcbase                 *)
(* (src/jsonrpcbase/main.py): the method registry, the envelope checks,   *)
(* the single and the batch path of call_py, and the error mapping.       *)
(*                                                                         *)
(* Python values are modelled as tagged records: None is JNull, an int is *)
(* JInt(i), a str is JStr(s), a float is JFloat(r), a list is JList(seq), *)
(* a dict is JDict(f) with f a function from its keys to its values, so   *)
(* that `k in d` is k \in DOMAIN d.members.                                *)
(***************************************************************************)
EXTENDS Integers, Sequences, FiniteSets, TLC

VARIABLES
    method_data,   \* self.method_data: registered name -> [method, schema]
    pc,            \* "idle": no call in progress; "returned": call_py has returned;
                   \* "call_returned": call has returned
    jsondata,      \* the first argument of the last call_py or call
    metadata,      \* the second argument of the last call_py or call
    result,        \* what the last call_py or call returned or raised
    calls          \* the handler invocations made by the last call, in order

vars == <<method_data, pc, jsondata, metadata, result, calls>>

-----------------------------------------------------------------------------
(* Python values *)

JNull == [type |-> "null"]
JInt(i) == [type |-> "int", int |-> i]
JStr(s) == [type |-> "str", str |-> s]
JFloat(r) == [type |-> "float", repr |-> r]
JList(s) == [type |-> "list", items |-> s]
JDict(f) == [type |-> "dict", members |-> f]
JBool(b) == [type |-> "bool", bool |-> b]

\* The text "%r is not of type %r" % (instance, expected): a str value.
JFmt(instance, expected) ==
    [type |-> "str", fmt |-> "%r is not of type %r", args |-> <<instance, expected>>]

EmptyDict == JDict(<<>>)

\* k in d
In(k, d) == k \in DOMAIN d.members

\* d[k]
Get(d, k) == d.members[k]

\* d[k] = v on a copy of d
DictSet(d, k, v) ==
    JDict([x \in (DOMAIN d.members) \cup {k} |-> IF x = k THEN v ELSE d.members[x]])

\* bool(v): None, 0, 0.0, "", [] and {} are false
Truthy(v) ==
    CASE v.type = "null" -> FALSE
      [] v.type = "int" -> v.int # 0
      [] v.type = "float" -> v.repr \notin {"0.0", "-0.0"}
      [] v.type = "str" -> v # JStr("")
      [] v.type = "list" -> v.items # <<>>
      [] v.type = "dict" -> DOMAIN v.members # {}
      [] OTHER -> TRUE

DEFAULT_JSONRPC == JStr("2.0")

-----------------------------------------------------------------------------
(* The exception classes *)

NoExc == "none"

JSONRPCErrors ==
    {"ParseError", "InvalidRequestError", "MethodNotFoundError", "ServerError"}

code(e) ==
    CASE e = "ParseError" -> 0 - 32700
      [] e = "InvalidRequestError" -> 0 - 32600
      [] e = "MethodNotFoundError" -> 0 - 32601
      [] e = "ServerError" -> 0 - 32000

message(e) ==
    CASE e = "ParseError" -> "Parse error"
      [] e = "InvalidRequestError" -> "Invalid request"
      [] e = "MethodNotFoundError" -> "Method not found"
      [] e = "ServerError" -> "Server error"

\* The class attribute data is None in all four classes.
data(e) == JNull

dumps(e) ==
    LET error == JDict([code |-> JInt(code(e)), message |-> JStr(message(e))])
    IN  IF data(e) # JNull THEN DictSet(error, "data", data(e)) ELSE error

-----------------------------------------------------------------------------
(* The handlers of the test service and the schema of its method 'pose' *)

\* hello, noop and broken_func of the test service, finnish_hello of
\* test_alternate_name, and coded_error, a handler of an embedding
\* application:
\*     def coded_error(params, meta):
\*         e = Exception(); e.jsonrpc_code = params[0]; raise e
Handlers == {"hello", "noop", "broken_func", "finnish_hello", "coded_error"}

\* f.__name__
__name__(f) == f

\* method(params, metadata): what the handler returns, or that it raises,
\* and the attribute jsonrpc_code of the exception it raises (None when the
\* exception has none: params[0] itself raises when params is None, {} or []).
Handler(f, params, meta) ==
    CASE f = "hello" -> [raises |-> FALSE, value |-> JStr("Hello world!"), code |-> JNull]
      [] f = "finnish_hello" ->
            [raises |-> FALSE, value |-> JStr("Hei maailma!"), code |-> JNull]
      [] f = "noop" -> [raises |-> FALSE, value |-> JNull, code |-> JNull]
      [] f = "broken_func" -> [raises |-> TRUE, value |-> JNull, code |-> JNull]
      [] f = "coded_error" ->
            [raises |-> TRUE, value |-> JNull,
             code |-> IF params.type = "list" /\ params.items # <<>>
                      THEN params.items[1] ELSE JNull]

PoseSchema ==
    JDict([type |-> JStr("array"),
           items |-> JList(<<JDict([type |-> JStr("integer")])>>)])

\* jsonschema's type keyword
IsOfType(instance, t) ==
    CASE t = JStr("array") -> instance.type = "list"
      [] t = JStr("object") -> instance.type = "dict"
      [] t = JStr("integer") -> instance.type = "int"
      [] t = JStr("number") -> instance.type \in {"int", "float"}
      [] t = JStr("string") -> instance.type = "str"
      [] t = JStr("null") -> instance.type = "null"
      [] OTHER -> FALSE

RECURSIVE SchemaErrors(_, _)
\* The messages of the violations of schema by instance, in the order
\* jsonschema finds them (keywords type and items).
SchemaErrors(instance, schema) ==
    LET typeErr ==
            IF In("type", schema) /\ ~IsOfType(instance, Get(schema, "type"))
            THEN <<JFmt(instance, Get(schema, "type"))>> ELSE <<>>
        n == IF In("items", schema) /\ instance.type = "list"
             THEN IF Len(instance.items) < Len(Get(schema, "items").items)
                  THEN Len(instance.items) ELSE Len(Get(schema, "items").items)
             ELSE 0
        ItemErrs[i \in 0..n] ==
            IF i = 0 THEN <<>>
            ELSE ItemErrs[i - 1]
                 \o SchemaErrors(instance.items[i], Get(schema, "items").items[i])
    IN  typeErr \o ItemErrs[n]

\* jsonschema.validate(instance, schema): raises ValidationError carrying the
\* message of the first violation.
validate(instance, schema) ==
    LET errs == SchemaErrors(instance, schema)
    IN  IF errs = <<>> THEN [exc |-> NoExc, message |-> JNull]
        ELSE [exc |-> "ValidationError", message |-> errs[1]]

-----------------------------------------------------------------------------
(* The envelope checks *)

Raise(e) == [exc |-> e, val |-> JNull]
Return(v) == [exc |-> NoExc, val |-> v]

\* _get_jsonrpc that takes every jsonrpc member for "2.0".
_get_jsonrpc_AnyVersion(rdata) ==
    IF In("jsonrpc", rdata)
    THEN Return(JInt(20))
    ELSE IF In("version", rdata) /\ Get(rdata, "version") = JStr("1.1")
         THEN Return(JInt(11))
         ELSE Return(JInt(10))

_get_jsonrpc(rdata) ==
    IF In("jsonrpc", rdata)
    THEN IF Get(rdata, "jsonrpc") = JStr("2.0")
         THEN Return(JInt(20))
         ELSE Raise("InvalidRequestError")
    ELSE IF In("version", rdata) /\ Get(rdata, "version") = JStr("1.1")
         THEN Return(JInt(11))
         ELSE Return(JInt(10))

\* _get_id without the check of the type.
_get_id_AnyType(rdata) ==
    IF In("id", rdata)
    THEN Return(Get(rdata, "id"))
    ELSE Return(JNull)

_get_id(rdata) ==
    IF In("id", rdata)
    THEN IF Get(rdata, "id").type \in {"str", "int", "float", "null"}
         THEN Return(Get(rdata, "id"))
         ELSE Raise("InvalidRequestError")
    ELSE Return(JNull)

_get_method(rdata) ==
    IF ~In("method", rdata) \/ Get(rdata, "method").type # "str"
    THEN Raise("InvalidRequestError")
    ELSE IF Get(rdata, "method").str \notin DOMAIN method_data
         THEN Raise("MethodNotFoundError")
         ELSE Return(Get(rdata, "method"))

_get_params(rdata) ==
    IF In("params", rdata)
    THEN IF Get(rdata, "params").type \in {"dict", "list", "null"}
         THEN Return(Get(rdata, "params"))
         ELSE Raise("InvalidRequestError")
    ELSE Return(JNull)

_get_default_vals == JDict([jsonrpc |-> DEFAULT_JSONRPC, id |-> JNull])

\* One assignment of _fill_request, request[key] = self._get_<key>(rdata):
\* skipped when an earlier check has raised; a check that raises leaves the
\* members filled so far.
Fill(st, key, r) ==
    IF st.exc # NoExc THEN st
    ELSE IF r.exc # NoExc THEN [exc |-> r.exc, request |-> st.request]
    ELSE [exc |-> NoExc, request |-> DictSet(st.request, key, r.val)]

_fill_request(request, rdata) ==
    IF rdata.type # "dict" THEN [exc |-> "InvalidRequestError", request |-> request]
    ELSE Fill(Fill(Fill(Fill([exc |-> NoExc, request |-> request],
                             "jsonrpc", _get_jsonrpc(rdata)),
                        "id", _get_id(rdata)),
                   "method", _get_method(rdata)),
              "params", _get_params(rdata))

-----------------------------------------------------------------------------
(* The error mapping and the response builder *)

\* What a step of the pipeline yields: a value, or an exception (with the
\* message of a ValidationError), and the handler invocations it made.
Outcome(e, v, msg, inv) == [exc |-> e, val |-> v, message |-> msg, calls |-> inv]

_fill_ver(iver, respond) ==
    IF iver = JInt(20) THEN DictSet(respond, "jsonrpc", JStr("2.0"))
    ELSE IF iver = JInt(11) THEN DictSet(respond, "version", JStr("1.1"))
    ELSE respond

_get_jsonschema_err(err, id, jsonrpc) ==
    IF jsonrpc = JInt(10)
    THEN JDict([id |-> id, result |-> JNull,
                error |-> JDict([message |-> err, code |-> JInt(0 - 32602)])])
    ELSE DictSet(_fill_ver(jsonrpc, JDict([id |-> id])),
                 "error", JDict([message |-> err, code |-> JInt(0 - 32602)]))

\* _get_err with the guard `not id and not isinstance(e, ParseError)`.
_get_err_OnlyParseExempt(e, id, jsonrpc) ==
    IF ~Truthy(id) /\ e # "ParseError"
    THEN JNull
    ELSE IF jsonrpc = JInt(10)
    THEN JDict([id |-> id, result |-> JNull, error |-> Get(dumps(e), "message")])
    ELSE IF jsonrpc.type = "int"
    THEN DictSet(_fill_ver(jsonrpc, JDict([id |-> id])), "error", dumps(e))
    ELSE JDict([id |-> id, jsonrpc |-> jsonrpc, error |-> dumps(e)])

_get_err(e, id, jsonrpc) ==
    IF ~Truthy(id) /\ e # "ParseError" /\ e # "InvalidRequestError"
    THEN JNull
    ELSE IF jsonrpc = JInt(10)
    THEN JDict([id |-> id, result |-> JNull, error |-> Get(dumps(e), "message")])
    ELSE IF jsonrpc.type = "int"
    THEN DictSet(_fill_ver(jsonrpc, JDict([id |-> id])), "error", dumps(e))
    ELSE JDict([id |-> id, jsonrpc |-> jsonrpc, error |-> dumps(e)])

-----------------------------------------------------------------------------
(* Dispatch of one filled request *)

\* self.method_data[request['method']]
Entry(request) == method_data[Get(request, "method").str]

\* The invocation method(params) that leaves the metadata out.
Invocation_NoMetadata(request, meta) ==
    [method |-> Get(request, "method").str,
     f |-> Entry(request).method,
     params |-> Get(request, "params"),
     metadata |-> JNull]

\* One handler invocation, as the handler sees it.
Invocation(request, meta) ==
    [method |-> Get(request, "method").str,
     f |-> Entry(request).method,
     params |-> Get(request, "params"),
     metadata |-> meta]

\* if schema: jsonschema.validate(params, schema)
Validated(params, schema) ==
    IF Truthy(schema) THEN validate(params, schema)
    ELSE [exc |-> NoExc, message |-> JNull]

\* The rest of _call_method, given what the validation (v) and the handler
\* (h) do: the handler is reached only when the validation does not raise.
Invoke(v, h, inv) ==
    IF v.exc # NoExc THEN Outcome(v.exc, JNull, v.message, <<>>)
    ELSE IF h.raises THEN Outcome("ServerError", JNull, JNull, <<inv>>)
    ELSE Outcome(NoExc, h.value, JNull, <<inv>>)

_call_method(request, meta) ==
    Invoke(Validated(Get(request, "params"), Entry(request).schema),
           Handler(Entry(request).method, Get(request, "params"), meta),
           Invocation(request, meta))

\* The rest of _handle_request with the guard `if not request['id']`.
Respond_FalsyId(request, r) ==
    IF r.exc # NoExc THEN r
    ELSE IF ~Truthy(Get(request, "id")) THEN Outcome(NoExc, JNull, JNull, r.calls)
    ELSE Outcome(NoExc,
                 DictSet(DictSet(_fill_ver(Get(request, "jsonrpc"), EmptyDict),
                                 "result", r.val),
                         "id", Get(request, "id")),
                 JNull, r.calls)

\* The rest of _handle_request, given the outcome r of _call_method.
Respond(request, r) ==
    IF r.exc # NoExc THEN r
    ELSE IF Get(request, "id") = JNull THEN Outcome(NoExc, JNull, JNull, r.calls)
    ELSE Outcome(NoExc,
                 DictSet(DictSet(_fill_ver(Get(request, "jsonrpc"), EmptyDict),
                                 "result", r.val),
                         "id", Get(request, "id")),
                 JNull, r.calls)

\* add() stores exactly the keys 'method' and 'schema', so the branch on
\* 'types' (_validate_params_types) is never taken.
_handle_request(request, meta) == Respond(request, _call_method(request, meta))

-----------------------------------------------------------------------------
(* The batch path *)

\* if err: responds.append(err)
Reject(prev, err) ==
    [requests |-> prev.requests,
     responds |-> IF Truthy(err) THEN Append(prev.responds, err) ELSE prev.responds]

\* One pass of the first loop, given what _fill_request did (fr).
FillStep(prev, fr) ==
    IF fr.exc # NoExc
    THEN Reject(prev, _get_err(fr.exc, Get(fr.request, "id"), DEFAULT_JSONRPC))
    ELSE [requests |-> Append(prev.requests, fr.request), responds |-> prev.responds]

\* The first loop of the batch branch: fills one request per element, and
\* turns the elements that fail into their error responses. loop[i] is the
\* state of requests and responds after i elements.
FillBatch(rdata) ==
    LET loop[i \in 0..Len(rdata)] ==
            IF i = 0 THEN [requests |-> <<>>, responds |-> <<>>]
            ELSE FillStep(loop[i - 1], _fill_request(_get_default_vals, rdata[i]))
    IN  loop[Len(rdata)]

\* The response of a handled request: what _handle_request returned, or the
\* error of the JSONRPCError it raised.
BatchRespond(request_, hr) ==
    IF hr.exc = NoExc THEN hr.val
    ELSE _get_err(hr.exc, Get(request_, "id"), Get(request_, "jsonrpc"))

\* The collecting with responds.insert(0, respond).
Collect_Prepend(prev, inv, respond) ==
    Outcome(NoExc, IF respond # JNull THEN <<respond>> \o prev.val ELSE prev.val,
            JNull, prev.calls \o inv)

\* if respond is not None: responds.append(respond)
Collect(prev, inv, respond) ==
    Outcome(NoExc, IF respond # JNull THEN Append(prev.val, respond) ELSE prev.val,
            JNull, prev.calls \o inv)

\* One pass of the second loop, given what _handle_request did (hr); an
\* exception that is not a JSONRPCError leaves the loop.
HandleStep(prev, request_, hr) ==
    IF prev.exc # NoExc THEN prev
    ELSE IF hr.exc \notin JSONRPCErrors \cup {NoExc}
    THEN Outcome(hr.exc, prev.val, hr.message, prev.calls \o hr.calls)
    ELSE Collect(prev, hr.calls, BatchRespond(request_, hr))

\* if responds: return responds; return None
BatchResult(done) ==
    IF done.exc # NoExc THEN done
    ELSE IF done.val = <<>> THEN Outcome(NoExc, JNull, JNull, done.calls)
    ELSE Outcome(NoExc, JList(done.val), JNull, done.calls)

\* The second loop of the batch branch, over the requests that fb holds.
\* loop[i] is the state of responds (and the invocations made) after i requests.
HandleBatch(fb, meta) ==
    LET loop[i \in 0..Len(fb.requests)] ==
            IF i = 0 THEN Outcome(NoExc, fb.responds, JNull, <<>>)
            ELSE HandleStep(loop[i - 1], fb.requests[i],
                            _handle_request(fb.requests[i], meta))
    IN  BatchResult(loop[Len(fb.requests)])

-----------------------------------------------------------------------------
(* call_py *)

\* A str holding the JSON text of value v.
Text(v) == [pytype |-> "str", syntax |-> "ok", encodes |-> v]

\* A str holding the JSON text of value v with a delimiter dropped or doubled.
BrokenText(v) == [pytype |-> "str", syntax |-> "broken", encodes |-> v]

\* A decoded value passed as it is.
Decoded(v) == [pytype |-> v.type, syntax |-> "none", encodes |-> v]

\* json.loads that skips over the damage instead of raising ValueError.
json_loads_Lenient(s) ==
    IF s.pytype # "str" THEN Raise("TypeError")
    ELSE Return(s.encodes)

\* json.loads(s)
json_loads(s) ==
    IF s.pytype # "str" THEN Raise("TypeError")
    ELSE IF s.syntax # "ok" THEN Raise("ValueError")
    ELSE Return(s.encodes)

\* What call_py returns or raises, and the handler invocations it made.
Returns(v, inv) == [kind |-> "return", value |-> v, calls |-> inv]
Raises(e, inv) == [kind |-> "raise", value |-> JStr(e), calls |-> inv]

\* The except clauses of the outer try of call_py.
CatchOuter(o, request) ==
    CASE o.exc = NoExc -> Returns(o.val, o.calls)
      [] o.exc = "InvalidRequestError" ->
            Returns(_get_err(o.exc, Get(request, "id"), DEFAULT_JSONRPC), o.calls)
      [] o.exc \in JSONRPCErrors \ {"InvalidRequestError"} ->
            Returns(_get_err(o.exc, Get(request, "id"), Get(request, "jsonrpc")), o.calls)
      [] o.exc = "ValidationError" ->
            Returns(_get_jsonschema_err(o.message, Get(request, "id"),
                                        Get(request, "jsonrpc")), o.calls)
      [] OTHER -> Raises(o.exc, o.calls)

\* The single branch, given what _fill_request did (fr) to the request.
Single(fr, meta) ==
    CatchOuter(IF fr.exc # NoExc THEN Outcome(fr.exc, JNull, JNull, <<>>)
               ELSE _handle_request(fr.request, meta),
               fr.request)

\* The try statement of call_py on the decoded value rdata.
Dispatch(rdata, meta) ==
    IF rdata.type = "dict" /\ Truthy(rdata)
    THEN Single(_fill_request(_get_default_vals, rdata), meta)
    ELSE IF rdata.type = "list" /\ Truthy(rdata)
    THEN CatchOuter(HandleBatch(FillBatch(rdata.items), meta), _get_default_vals)
    ELSE CatchOuter(Outcome("InvalidRequestError", JNull, JNull, <<>>), _get_default_vals)

\* call_py after json.loads
AfterLoads(parsed, meta) ==
    IF parsed.exc = "ValueError"
    THEN Returns(_get_err("ParseError", JNull, DEFAULT_JSONRPC), <<>>)
    ELSE IF parsed.exc # NoExc THEN Raises(parsed.exc, <<>>)
    ELSE Dispatch(parsed.val, meta)

\* call_py(jsondata, metadata): what it returns or raises, and the handler
\* invocations it makes.
call_py(payload, meta) == AfterLoads(json_loads(payload), meta)

-----------------------------------------------------------------------------
(* call: call_py, and json.dumps on what it returns *)

\* The tokens of JSON text.
Tok(t) == [tok |-> t]
Lit(t, v) == [tok |-> t, val |-> v]

RECURSIVE Keys(_)
\* The keys of a dict in the order json.dumps writes them.
KeysFrom(k, S) == <<k>> \o Keys(S \ {k})
Keys(S) == IF S = {} THEN <<>> ELSE KeysFrom(CHOOSE k \in S : TRUE, S)

RECURSIVE Encode(_)
\* The items of a list, separated by commas.
EncodeItems(items) ==
    LET loop[i \in 0..Len(items)] ==
            IF i = 0 THEN <<>>
            ELSE loop[i - 1] \o (IF i > 1 THEN <<Tok(",")>> ELSE <<>>) \o Encode(items[i])
    IN  loop[Len(items)]

\* The members of a dict, "key": value, separated by commas.
EncodeMembers(f, keys) ==
    LET loop[i \in 0..Len(keys)] ==
            IF i = 0 THEN <<>>
            ELSE loop[i - 1] \o (IF i > 1 THEN <<Tok(",")>> ELSE <<>>)
                 \o <<Lit("string", JStr(keys[i])), Tok(":")>> \o Encode(f[keys[i]])
    IN  loop[Len(keys)]

\* The JSON text of a Python value, as json.dumps writes it: None is null.
Encode(v) ==
    CASE v.type = "null" -> <<Tok("null")>>
      [] v.type \in {"int", "float"} -> <<Lit("number", v)>>
      [] v.type = "str" -> <<Lit("string", v)>>
      [] v.type = "list" -> <<Tok("[")>> \o EncodeItems(v.items) \o <<Tok("]")>>
      [] v.type = "dict" ->
            <<Tok("{")>> \o EncodeMembers(v.members, Keys(DOMAIN v.members)) \o <<Tok("}")>>

\* json.dumps(v): a str holding JSON text.
json_dumps(v) == [type |-> "str", json |-> Encode(v)]

RECURSIVE ParseValue(_, _), ParseItems(_, _, _), ParseMembers(_, _, _)
\* The value that starts at token p, and the position after it.
ParseValue(toks, p) ==
    CASE toks[p].tok = "null" -> [val |-> JNull, next |-> p + 1]
      [] toks[p].tok \in {"number", "string"} -> [val |-> toks[p].val, next |-> p + 1]
      [] toks[p].tok = "[" -> ParseItems(toks, p + 1, <<>>)
      [] toks[p].tok = "{" -> ParseMembers(toks, p + 1, <<>>)

ItemParsed(toks, r, acc) == ParseItems(toks, r.next, Append(acc, r.val))

\* The rest of an array of which the items acc are read.
ParseItems(toks, p, acc) ==
    IF toks[p].tok = "]" THEN [val |-> JList(acc), next |-> p + 1]
    ELSE ItemParsed(toks, ParseValue(toks, IF toks[p].tok = "," THEN p + 1 ELSE p), acc)

MemberParsed(toks, k, r, acc) == ParseMembers(toks, r.next, (k :> r.val) @@ acc)
MemberAt(toks, q, acc) == MemberParsed(toks, toks[q].val.str, ParseValue(toks, q + 2), acc)

\* The rest of an object of which the members acc are read.
ParseMembers(toks, p, acc) ==
    IF toks[p].tok = "}" THEN [val |-> JDict(acc), next |-> p + 1]
    ELSE MemberAt(toks, IF toks[p].tok = "," THEN p + 1 ELSE p, acc)

\* The value that the text written by json.dumps decodes to.
Decode(text) == ParseValue(text.json, 1).val

\* call that hands None to json.dumps as well.
AfterCallPy_DumpsNone(r) ==
    IF r.kind = "return" THEN Returns(json_dumps(r.value), r.calls) ELSE r

\* call after call_py: if result is not None: return json.dumps(result)
AfterCallPy(r) ==
    IF r.kind = "return" /\ r.value # JNull THEN Returns(json_dumps(r.value), r.calls)
    ELSE r

\* call(jsondata, metadata)
call(payload, meta) == AfterCallPy(call_py(payload, meta))

-----------------------------------------------------------------------------
(* The inputs *)

\* The longest batch
MaxBatch == 2

\* Marks a member that a request object does not have.
Absent == [type |-> "absent"]

\* The request object with the members of fields that are not Absent.
Obj(fields) ==
    JDict([k \in {x \in DOMAIN fields : fields[x] # Absent} |-> fields[k]])

JsonrpcVals == {Absent, JStr("2.0"), JStr("9999")}
VersionVals == {Absent, JStr("1.1")}
IdVals == {Absent, JNull, JInt(0), JInt(1), JStr(""), JStr("1"), EmptyDict, JFloat("1.5")}
MethodVals == {Absent, JStr("hello"), JStr("broken_func"), JStr("pose"), JStr("foofoo"),
               JStr(""), JInt(1)}
ParamsVals == {Absent, JNull, JList(<<>>), JList(<<JInt(1)>>), JList(<<JStr("x")>>),
               EmptyDict, JStr("hi")}

SingleRequests ==
    {Obj([jsonrpc |-> j, version |-> v, id |-> i, method |-> m, params |-> p]) :
        j \in JsonrpcVals, v \in VersionVals, i \in IdVals, m \in MethodVals,
        p \in ParamsVals}

\* A 2.0 request
Req(i, m, p) ==
    Obj([jsonrpc |-> JStr("2.0"), version |-> Absent, id |-> i, method |-> JStr(m),
         params |-> p])

\* Requests for coded_error, requests whose jsonrpc member is not a str, and
\* requests whose id is an array.
ExtraRequests ==
    {Req(i, "coded_error", p) :
        i \in {Absent, JInt(1), JStr("7")},
        p \in {Absent, JList(<<JInt(0 - 32050)>>), JList(<<JInt(0 - 1)>>)}}
    \cup {Obj([jsonrpc |-> j, version |-> Absent, id |-> i, method |-> JStr("hello"),
               params |-> Absent]) :
            j \in {JInt(2), JFloat("2.0"), JNull}, i \in {Absent, JInt(1)}}
    \cup {Req(i, "hello", Absent) : i \in {JList(<<>>), JList(<<JInt(1)>>)}}

\* Requests whose params member is a number or a boolean.
ScalarParamsRequests ==
    {Req(i, m, p) :
        i \in {Absent, JInt(1)}, m \in {"hello", "foofoo"},
        p \in {JInt(5), JFloat("1.5"), JBool(TRUE)}}

\* Batches of one request object, of every version.
LoneBatches ==
    {JList(<<Obj([jsonrpc |-> j, version |-> v, id |-> i, method |-> JStr(m),
                  params |-> p])>>) :
        j \in {Absent, JStr("2.0")}, v \in VersionVals, i \in {Absent, JInt(0), JInt(1)},
        m \in {"hello", "broken_func", "pose", "foofoo"},
        p \in {Absent, JList(<<JStr("x")>>)}}

FooBoo == JDict([foo |-> JStr("boo")])

BatchElements ==
    {Req(JInt(1), "hello", Absent), Req(Absent, "hello", JList(<<JInt(7)>>)),
     Req(JStr("9"), "broken_func", JList(<<JInt(5)>>)), Req(Absent, "broken_func", Absent),
     Req(JStr("5"), "foofoo", EmptyDict), Req(Absent, "foofoo", JList(<<JInt(7)>>)),
     Req(JInt(0), "foofoo", Absent),
     Req(JStr("2"), "pose", JList(<<JStr("x")>>)), Req(Absent, "pose", JList(<<JStr("x")>>)),
     Req(JInt(3), "pose", JList(<<JInt(1)>>)),
     Req(EmptyDict, "hello", Absent), FooBoo, JInt(1)}

Batches ==
    {JList(<<>>)} \cup
    UNION {{JList(s) : s \in [1..n -> BatchElements]} : n \in 1..MaxBatch}

\* The decoded values whose text is sent damaged, or that are passed undecoded.
Samples == BatchElements \cup {JList(<<e>>) : e \in BatchElements}

Payloads ==
    {Text(v) : v \in SingleRequests \cup ExtraRequests \cup ScalarParamsRequests
                        \cup Batches \cup LoneBatches
                        \cup {FooBoo, JNull, JInt(1), JStr("x")}}
    \cup {BrokenText(v) : v \in Samples}
    \cup {Decoded(v) : v \in Samples}

Metadata == {JNull, JStr("token")}

\* The registrations of the test service: (f, name, schema); finnish_hello
\* is registered under a name that hello takes as well.
Registrations ==
    {<<"hello", JNull, JNull>>, <<"broken_func", JNull, JNull>>,
     <<"noop", JStr("pose"), PoseSchema>>,
     <<"finnish_hello", JStr("hello"), JNull>>, <<"coded_error", JNull, JNull>>}

-----------------------------------------------------------------------------
(* The service *)

NoCall == [pytype |-> "nocall", syntax |-> "none", encodes |-> JNull]
NoResult == [kind |-> "none", value |-> JNull]

Init ==
    /\ method_data = <<>>
    /\ pc = "idle"
    /\ jsondata = NoCall
    /\ metadata = JNull
    /\ result = NoResult
    /\ calls = <<>>

\* add(f, name, schema)
Add(f, name, schema) ==
    LET fname == IF name = JNull THEN __name__(f) ELSE name.str
    IN  /\ pc = "idle"
        /\ method_data' = (fname :> [method |-> f, schema |-> schema]) @@ method_data
        /\ UNCHANGED <<pc, jsondata, metadata, result, calls>>

\* call_py(payload, meta), from its first statement to its return or raise
CallPy(payload, meta) ==
    LET r == call_py(payload, meta)
    IN  /\ pc = "idle"
        /\ jsondata' = payload
        /\ metadata' = meta
        /\ result' = [kind |-> r.kind, value |-> r.value]
        /\ calls' = r.calls
        /\ pc' = "returned"
        /\ UNCHANGED method_data

\* The caller has sent the result back; the objects of the call are dropped.
SendResult ==
    /\ pc \in {"returned", "call_returned"}
    /\ pc' = "idle"
    /\ jsondata' = NoCall
    /\ metadata' = JNull
    /\ result' = NoResult
    /\ calls' = <<>>
    /\ UNCHANGED method_data

\* call(payload, meta), from its first statement to its return or raise
Call(payload, meta) ==
    LET r == call(payload, meta)
    IN  /\ pc = "idle"
        /\ jsondata' = payload
        /\ metadata' = meta
        /\ result' = [kind |-> r.kind, value |-> r.value]
        /\ calls' = r.calls
        /\ pc' = "call_returned"
        /\ UNCHANGED method_data

\* The embedding application passes a payload it received to call_py.
Request ==
    /\ pc = "idle"
    /\ \E payload \in Payloads, meta \in Metadata : CallPy(payload, meta)

\* The embedding application passes a payload it received to call.
RequestText ==
    /\ pc = "idle"
    /\ \E payload \in Payloads, meta \in Metadata : Call(payload, meta)

Next ==
    \/ \E r \in Registrations : Add(r[1], r[2], r[3])
    \/ Request
    \/ RequestText
    \/ SendResult

Spec == Init /\ [][Next]_vars

-----------------------------------------------------------------------------
(* The vocabulary of the properties *)

\* call_py has returned from a call whose argument was well-formed JSON text.
SentText == pc = "returned" /\ jsondata.pytype = "str" /\ jsondata.syntax = "ok"

\* The value that text decodes to.
Rdata == jsondata.encodes

\* call_py returned v (and did not raise).
Returned(v) == result.kind = "return" /\ result.value = v

\* call_py returned one response object.
ReturnedObject == result.kind = "return" /\ result.value.type = "dict"

\* call_py returned an array.
ReturnedArray == result.kind = "return" /\ result.value.type = "list"

\* e has an id member that is a string or an integer.
HasId(e) == e.type = "dict" /\ In("id", e) /\ Get(e, "id").type \in {"str", "int"}

\* e is a request object that satisfies the envelope rules of JSON-RPC 2.0.
ValidEnvelope(e) ==
    /\ e.type = "dict"
    /\ In("jsonrpc", e) /\ Get(e, "jsonrpc") = JStr("2.0")
    /\ In("method", e) /\ Get(e, "method").type = "str" /\ Get(e, "method") # JStr("")
    /\ In("id", e) => Get(e, "id").type \in {"str", "int", "null"}
    /\ In("params", e) => Get(e, "params").type \in {"list", "dict"}

\* A request with a valid envelope and no id member.
IsNotification(e) == ValidEnvelope(e) /\ ~In("id", e)

\* A request with a valid envelope and a string or integer id.
IsRequestWithId(e) == ValidEnvelope(e) /\ HasId(e)

MethodOf(e) == Get(e, "method").str
Registered(e) == MethodOf(e) \in DOMAIN method_data
ParamsOf(e) == IF In("params", e) THEN Get(e, "params") ELSE JNull
SchemaOf(e) == method_data[MethodOf(e)].schema
ParamsAccepted(e) ==
    SchemaOf(e) = JNull \/ validate(ParamsOf(e), SchemaOf(e)).exc = NoExc
HandlerOf(e) == method_data[MethodOf(e)].method
HandlerReturns(e) == ~Handler(HandlerOf(e), ParamsOf(e), metadata).raises
HandlerValue(e) == Handler(HandlerOf(e), ParamsOf(e), metadata).value

\* r is a response object whose error member is an object with code c.
IsError(r, c) ==
    /\ r.type = "dict" /\ In("error", r)
    /\ Get(r, "error").type = "dict" /\ In("code", Get(r, "error"))
    /\ Get(Get(r, "error"), "code") = JInt(c)

\* r is a response object with id i.
HasRespId(r, i) == r.type = "dict" /\ In("id", r) /\ Get(r, "id") = i

\* The elements of a batch, and the responses of a returned array.
Elements == IF Rdata.type = "list" THEN Rdata.items ELSE <<>>
Responses == IF ReturnedArray THEN result.value.items ELSE <<>>
SentBatch == SentText /\ Rdata.type = "list" /\ Rdata.items # <<>>

-----------------------------------------------------------------------------
(* C1 *)

C1_Pre ==
    /\ SentText /\ IsRequestWithId(Rdata)
    /\ Registered(Rdata) /\ ParamsAccepted(Rdata) /\ HandlerReturns(Rdata)

\* C1: a well-formed single request with a string or integer id, a registered
\* method and accepted params, whose handler returns, gets one response
\* object with the request's id and the handler's return value as result, and
\* no error member.
C1_SuccessResponse ==
    C1_Pre =>
        /\ ReturnedObject
        /\ HasRespId(result.value, Get(Rdata, "id"))
        /\ In("result", result.value)
        /\ Get(result.value, "result") = HandlerValue(Rdata)
        /\ ~In("error", result.value)

C1_Witness ==
    /\ C1_Pre /\ ~Truthy(Get(Rdata, "id"))
    /\ ReturnedObject /\ Get(result.value, "result") = JStr("Hello world!")

-----------------------------------------------------------------------------
(* C2 *)

\* C2: a notification (valid envelope, no id member) gets no response: call_py
\* returns None whether the handler returns or raises, the method is not
\* registered, or the params violate the schema of the method.
C2_NotificationSilent == (SentText /\ IsNotification(Rdata)) => Returned(JNull)

-----------------------------------------------------------------------------
(* C3 *)

\* The element fails: envelope error, unregistered method, params that violate
\* the schema, or a handler that raises.
Fails(e) ==
    \/ ~ValidEnvelope(e)
    \/ ~Registered(e)
    \/ ~ParamsAccepted(e)
    \/ ~HandlerReturns(e)

\* The handler of element e was invoked with its params.
Processed(e) ==
    \E k \in 1..Len(calls) :
        calls[k].method = MethodOf(e) /\ calls[k].params = ParamsOf(e)

\* C3: in a non-empty batch a failing element does not abort the batch: every
\* other element is still processed, and every other element that has an id
\* gets its own response in the returned array.
C3_BatchNotAborted ==
    SentBatch =>
        \A i, j \in 1..Len(Elements) :
            (i # j /\ Fails(Elements[i])) =>
                /\ (ValidEnvelope(Elements[j]) /\ Registered(Elements[j])
                        /\ ParamsAccepted(Elements[j])) => Processed(Elements[j])
                /\ HasId(Elements[j]) =>
                        /\ ReturnedArray
                        /\ \E k \in 1..Len(Responses) :
                                HasRespId(Responses[k], Get(Elements[j], "id"))

-----------------------------------------------------------------------------
(* C4 *)

\* The element gets a response: it has an id member, or its envelope is
\* invalid (reported with the id null when the id is not known).
Produces(e) == ~ValidEnvelope(e) \/ In("id", e)

\* The id of the response of element e.
ExpId(e) == IF HasId(e) THEN Get(e, "id") ELSE JNull

\* r is the response of element e: it has the id of e, and the result of e
\* or the error code of the failure of e.
Matches(r, e) ==
    /\ HasRespId(r, ExpId(e))
    /\ IF ~ValidEnvelope(e) THEN IsError(r, 0 - 32600)
       ELSE IF ~Registered(e) THEN IsError(r, 0 - 32601)
       ELSE IF ~ParamsAccepted(e) THEN IsError(r, 0 - 32602)
       ELSE IF ~HandlerReturns(e) THEN IsError(r, 0 - 32000)
       ELSE In("result", r) /\ Get(r, "result") = HandlerValue(e) /\ ~In("error", r)

\* The positions of the elements that get a response.
Producing == {i \in 1..Len(Elements) : Produces(Elements[i])}

\* C4: for a batch of which K elements produce a response, call_py returns an
\* array of exactly K response objects, each with the id of the element that
\* produced it and that element's result or error code.
C4_BatchCorrelated ==
    (SentBatch /\ Producing # {}) =>
        /\ ReturnedArray
        /\ Len(Responses) = Cardinality(Producing)
        /\ \E f \in [1..Len(Responses) -> Producing] :
                /\ \A a, b \in 1..Len(Responses) : a # b => f[a] # f[b]
                /\ \A a \in 1..Len(Responses) : Matches(Responses[a], Elements[f[a]])

-----------------------------------------------------------------------------
(* C5 *)

\* C5: a batch of notifications only (whether their handlers return or raise,
\* or their methods are not registered) yields None, and no batch yields an
\* empty array.
C5_AllNotifications ==
    SentBatch =>
        /\ ~Returned(JList(<<>>))
        /\ (\A i \in 1..Len(Elements) : IsNotification(Elements[i])) => Returned(JNull)

-----------------------------------------------------------------------------
(* C6 *)

\* f maps the responses a..b to elements in increasing order, each response
\* having the id of its element.
InOrder(f, a, b) ==
    /\ \A x, y \in a..b : x < y => f[x] < f[y]
    /\ \A x \in a..b : HasRespId(Responses[x], ExpId(Elements[f[x]]))

\* C6 as stated: the responses of a batch are in the relative order of the
\* elements that produced them.
C6_InputOrder ==
    (SentBatch /\ ReturnedArray) =>
        \E f \in [1..Len(Responses) -> 1..Len(Elements)] : InOrder(f, 1, Len(Responses))

\* The element is turned down before dispatch: envelope error or unregistered
\* method.
Rejected(e) == _fill_request(_get_default_vals, e).exc # NoExc

\* C6 as amended: the array holds the responses of the elements rejected
\* before dispatch, in the order of those elements, followed by the responses
\* of the dispatched elements, in the order of those elements.
C6_TwoPhaseOrder ==
    (SentBatch /\ ReturnedArray) =>
        \E s \in 0..Len(Responses) :
            \E f \in [1..Len(Responses) -> 1..Len(Elements)] :
                /\ InOrder(f, 1, s)
                /\ InOrder(f, s + 1, Len(Responses))
                /\ \A x \in 1..Len(Responses) : Rejected(Elements[f[x]]) <=> x <= s

\* A rejected element after a dispatched one: its response comes first.
C6_Witness ==
    /\ SentBatch /\ ReturnedArray /\ Len(Elements) = 2 /\ Len(Responses) = 2
    /\ ~Rejected(Elements[1]) /\ Rejected(Elements[2])
    /\ HasId(Elements[1])
    /\ HasRespId(Responses[1], JNull)
    /\ HasRespId(Responses[2], Get(Elements[1], "id"))

-----------------------------------------------------------------------------
(* C7 *)

\* C7: an empty batch array yields a single error object with code -32600,
\* id null and jsonrpc "2.0", and no handler is invoked.
C7_EmptyBatch ==
    (SentText /\ Rdata = JList(<<>>)) =>
        /\ ReturnedObject
        /\ IsError(result.value, 0 - 32600)
        /\ HasRespId(result.value, JNull)
        /\ In("jsonrpc", result.value) /\ Get(result.value, "jsonrpc") = JStr("2.0")
        /\ calls = <<>>

C7_Witness ==
    /\ SentText /\ Rdata = JList(<<>>) /\ DOMAIN method_data # {}
    /\ IsError(result.value, 0 - 32600)

-----------------------------------------------------------------------------
(* C8 *)

\* call_py has returned from a call whose argument was text that is not JSON.
SentBrokenText == pc = "returned" /\ jsondata.pytype = "str" /\ jsondata.syntax = "broken"

\* C8: text that is not valid JSON yields exactly one response object with
\* code -32700, id null and jsonrpc "2.0", whether it looked like a request
\* or a batch and whether or not it holds an id; no handler is invoked.
C8_ParseError ==
    SentBrokenText =>
        /\ ReturnedObject
        /\ IsError(result.value, 0 - 32700)
        /\ HasRespId(result.value, JNull)
        /\ In("jsonrpc", result.value) /\ Get(result.value, "jsonrpc") = JStr("2.0")
        /\ calls = <<>>

\* The damaged text of a batch whose element has an id and a registered method.
C8_Witness ==
    /\ SentBrokenText
    /\ jsondata.encodes = JList(<<Req(JInt(1), "hello", Absent)>>)
    /\ "hello" \in DOMAIN method_data
    /\ IsError(result.value, 0 - 32700)

-----------------------------------------------------------------------------
(* C9 *)

\* The names registered, as a set of str values.
RegisteredNames == {JStr(n) : n \in DOMAIN method_data}

\* C9: a request with a valid envelope and an id whose method is not
\* registered gets a response with that id, code -32601, message 'Method not
\* found' and data.available_methods holding the registered names.
C9_MethodNotFound ==
    (SentText /\ IsRequestWithId(Rdata) /\ ~Registered(Rdata)) =>
        /\ ReturnedObject
        /\ HasRespId(result.value, Get(Rdata, "id"))
        /\ IsError(result.value, 0 - 32601)
        /\ LET error == Get(result.value, "error")
           IN  /\ In("message", error) /\ Get(error, "message") = JStr("Method not found")
               /\ In("data", error) /\ Get(error, "data").type = "dict"
               /\ In("available_methods", Get(error, "data"))
               /\ LET names == Get(Get(error, "data"), "available_methods")
                  IN  /\ names.type = "list"
                      /\ {names.items[k] : k \in 1..Len(names.items)} = RegisteredNames

-----------------------------------------------------------------------------
(* C10 *)

\* C10: params that violate the schema of a registered method, in a request
\* with an id: the handler is not invoked and the response has the id of the
\* request, code -32602, message 'Invalid params' and data.details holding
\* the message of the violation.
C10_InvalidParams ==
    (SentText /\ IsRequestWithId(Rdata) /\ Registered(Rdata) /\ ~ParamsAccepted(Rdata)) =>
        /\ calls = <<>>
        /\ ReturnedObject
        /\ HasRespId(result.value, Get(Rdata, "id"))
        /\ IsError(result.value, 0 - 32602)
        /\ LET error == Get(result.value, "error")
           IN  /\ In("message", error) /\ Get(error, "message") = JStr("Invalid params")
               /\ In("data", error) /\ Get(error, "data").type = "dict"
               /\ In("details", Get(error, "data"))
               /\ Get(Get(error, "data"), "details")
                    = validate(ParamsOf(Rdata), SchemaOf(Rdata)).message

-----------------------------------------------------------------------------
(* C11 *)

\* C11: registering a method under a name that is already registered leaves
\* the registry unchanged: every registered name keeps, over every step, the
\* handler and the schema registered first.
C11_DuplicateRejected ==
    [][\A n \in DOMAIN method_data :
            n \in DOMAIN method_data' /\ method_data'[n] = method_data[n]]_vars

-----------------------------------------------------------------------------
(* C12 *)

\* The attribute jsonrpc_code of the exception the handler of e raises.
HandlerCode(e) == Handler(HandlerOf(e), ParamsOf(e), metadata).code

\* call_py got the text of a request object that passes the envelope checks
\* and the schema of its method, and whose handler raises.
HandlerRaised ==
    /\ SentText /\ Rdata.type = "dict" /\ ~Rejected(Rdata)
    /\ ParamsAccepted(Rdata) /\ ~HandlerReturns(Rdata)

\* C12: when the handler raises an exception without a custom code, a request
\* with an id gets a response with that id, error code -32000 and message
\* 'Server error', and no result member; call_py does not raise.
C12_ServerError ==
    (HandlerRaised /\ HasId(Rdata) /\ HandlerCode(Rdata) = JNull) =>
        /\ ReturnedObject
        /\ HasRespId(result.value, Get(Rdata, "id"))
        /\ IsError(result.value, 0 - 32000)
        /\ Get(Get(result.value, "error"), "message") = JStr("Server error")
        /\ ~In("result", result.value)

-----------------------------------------------------------------------------
(* C13 *)

\* The exception the handler of e raises declares an integer code.
DeclaresCode(e) == HandlerCode(e).type = "int"

\* C13: when the handler raises an exception that declares a custom code in
\* -32099..-32000, the error code of the response is the declared code.
C13_CustomCode ==
    (HandlerRaised /\ HasId(Rdata) /\ DeclaresCode(Rdata)
        /\ 0 - 32099 <= HandlerCode(Rdata).int /\ HandlerCode(Rdata).int <= 0 - 32000) =>
        /\ ReturnedObject
        /\ IsError(result.value, HandlerCode(Rdata).int)

-----------------------------------------------------------------------------
(* C14 *)

\* C14: when the handler raises an exception that declares a custom code
\* outside -32099..-32000, call_py raises InvalidServerErrorCode and returns
\* no response.
C14_InvalidCodeRaises ==
    (HandlerRaised /\ DeclaresCode(Rdata)
        /\ (HandlerCode(Rdata).int < 0 - 32099 \/ HandlerCode(Rdata).int > 0 - 32000)) =>
        /\ result.kind = "raise"
        /\ result.value = JStr("InvalidServerErrorCode")

-----------------------------------------------------------------------------
(* C15 *)

\* The response objects call_py returned: the object, or the items of the array.
ResponseObjects ==
    IF result.kind # "return" THEN {}
    ELSE IF result.value.type = "list"
    THEN {result.value.items[k] : k \in 1..Len(result.value.items)}
    ELSE IF result.value.type = "dict" THEN {result.value}
    ELSE {}

\* r has exactly one of the members result and error, and its error member
\* is an object with an integer code and a string message.
WellFormed(r) ==
    /\ r.type = "dict"
    /\ In("result", r) # In("error", r)
    /\ In("error", r) =>
            /\ Get(r, "error").type = "dict"
            /\ In("code", Get(r, "error")) /\ Get(Get(r, "error"), "code").type = "int"
            /\ In("message", Get(r, "error")) /\ Get(Get(r, "error"), "message").type = "str"

\* C15: every response object call_py produces, alone or in a batch array,
\* has exactly one of result and error, and an error member is an object with
\* an integer code and a string message.
C15_ResultXorError ==
    pc = "returned" => \A r \in ResponseObjects : WellFormed(r)

-----------------------------------------------------------------------------
(* C16 *)

\* call_py has returned from a call whose argument was a decoded object or array.
SentDecoded == pc = "returned" /\ jsondata.pytype \in {"dict", "list"}

\* C16: call_py given a decoded object or array does not raise and returns
\* what it returns for the JSON text of that object or array.
C16_DecodedAccepted ==
    SentDecoded =>
        /\ result.kind = "return"
        /\ result.value = call_py(Text(jsondata.encodes), metadata).value

-----------------------------------------------------------------------------
(* C17 *)

\* call has returned or raised.
CallDone == pc = "call_returned"

\* What call_py does with the arguments of the last call.
SameByCallPy == call_py(jsondata, metadata)

\* The result is a str of JSON text that decodes to v.
ReturnedTextOf(v) ==
    /\ result.kind = "return"
    /\ result.value.type = "str" /\ "json" \in DOMAIN result.value
    /\ Decode(result.value) = v

-----------------------------------------------------------------------------
(* C18 *)

\* call_py got the text of a request object whose jsonrpc member is present
\* and is not the string "2.0".
WrongVersion ==
    /\ SentText /\ Rdata.type = "dict"
    /\ In("jsonrpc", Rdata) /\ Get(Rdata, "jsonrpc") # JStr("2.0")

-----------------------------------------------------------------------------
(* C19 *)

\* call_py got the text of a request object with neither a jsonrpc nor a
\* version member, a method name, an id that is a string or an integer and
\* params that are absent, an object or an array.
Versionless ==
    /\ SentText /\ Rdata.type = "dict"
    /\ ~In("jsonrpc", Rdata) /\ ~In("version", Rdata)
    /\ In("method", Rdata) /\ Get(Rdata, "method").type = "str"
    /\ Get(Rdata, "method") # JStr("")
    /\ HasId(Rdata)
    /\ In("params", Rdata) => Get(Rdata, "params").type \in {"list", "dict"}

\* C19: a request with neither a jsonrpc nor a version member is processed as
\* a 2.0 request: the response carries jsonrpc "2.0", a success carries
\* result and no error, and an unregistered method yields an error object
\* with code -32601 and the id of the request.
C19_VersionlessAs20 ==
    Versionless =>
        /\ ReturnedObject
        /\ In("jsonrpc", result.value) /\ Get(result.value, "jsonrpc") = JStr("2.0")
        /\ HasRespId(result.value, Get(Rdata, "id"))
        /\ IF ~Registered(Rdata) THEN IsError(result.value, 0 - 32601)
           ELSE (ParamsAccepted(Rdata) /\ HandlerReturns(Rdata)) =>
                    /\ In("result", result.value)
                    /\ Get(result.value, "result") = HandlerValue(Rdata)
                    /\ ~In("error", result.value)

-----------------------------------------------------------------------------
(* C20 *)

\* call_py got the text of a request object whose id member has one of the
\* types ts.
IdOfType(ts) ==
    /\ SentText /\ Rdata.type = "dict"
    /\ In("id", Rdata) /\ Get(Rdata, "id").type \in ts

\* The response to an invalid id: Invalid Request, id null, no result member,
\* no handler invoked.
InvalidIdResponse ==
    /\ ReturnedObject
    /\ IsError(result.value, 0 - 32600)
    /\ HasRespId(result.value, JNull)
    /\ ~In("result", result.value)
    /\ calls = <<>>

-----------------------------------------------------------------------------
(* C21 *)

\* call_py got the text of a 2.0 request object with a method name and an id
\* that is a string or an integer, whose params member has one of the types ts.
ParamsOfType(ts) ==
    /\ SentText /\ Rdata.type = "dict"
    /\ In("jsonrpc", Rdata) /\ Get(Rdata, "jsonrpc") = JStr("2.0")
    /\ HasId(Rdata)
    /\ In("method", Rdata) /\ Get(Rdata, "method").type = "str"
    /\ Get(Rdata, "method") # JStr("")
    /\ In("params", Rdata) /\ Get(Rdata, "params").type \in ts

\* C21: a request whose params member is a string, a number, a boolean or
\* null gets an Invalid Request response (code -32600) with the id of the
\* request, and no handler is invoked.
C21_ScalarParamsRejected ==
    ParamsOfType({"str", "int", "float", "bool", "null"}) =>
        /\ ReturnedObject
        /\ IsError(result.value, 0 - 32600)
        /\ HasRespId(result.value, Get(Rdata, "id"))
        /\ calls = <<>>

-----------------------------------------------------------------------------
(* C22 *)

\* call_py got the text of a request object without a method member, or
\* whose method member is not a str.
MethodMissing ==
    /\ SentText /\ Rdata.type = "dict" /\ Truthy(Rdata)
    /\ ~In("method", Rdata) \/ Get(Rdata, "method").type # "str"

\* call_py got the text of a request object whose method is the empty string.
MethodEmpty ==
    /\ SentText /\ Rdata.type = "dict"
    /\ In("method", Rdata) /\ Get(Rdata, "method") = JStr("")

\* C22: a request whose method member is missing, is not a string or is the
\* empty string gets an Invalid Request response (code -32600), and no
\* handler is invoked.
C22_BadMethodRejected ==
    (MethodMissing \/ MethodEmpty) =>
        /\ ReturnedObject
        /\ IsError(result.value, 0 - 32600)
        /\ calls = <<>>

-----------------------------------------------------------------------------
(* C23 *)

\* call_py got the text of a 2.0 request with a valid envelope whose id
\* member is present and is null, for a registered method.
NullId ==
    /\ SentText /\ ValidEnvelope(Rdata)
    /\ In("id", Rdata) /\ Get(Rdata, "id") = JNull
    /\ Registered(Rdata)

\* C23: a request whose id member is present with the value null is not a
\* notification: it gets a response whose id is null.
C23_NullIdAnswered ==
    NullId => (ReturnedObject /\ HasRespId(result.value, JNull))

-----------------------------------------------------------------------------
(* C24 *)

\* The element fails the envelope checks and has no id to answer to: it is
\* not an object, or it is an object without an id and without a method name.
Undeterminable(e) ==
    \/ e.type # "dict"
    \/ /\ ~In("id", e)
       /\ ~In("method", e) \/ Get(e, "method").type # "str"

\* The positions of the elements that have no id to answer to, and of the
\* Invalid Request responses with id null.
UndeterminablePositions == {i \in 1..Len(Elements) : Undeterminable(Elements[i])}
NullIdRejections ==
    {k \in 1..Len(Responses) :
        IsError(Responses[k], 0 - 32600) /\ HasRespId(Responses[k], JNull)}

\* C24: every batch element that fails the envelope checks and has no id to
\* answer to gets its own Invalid Request response with id null in the
\* returned array, and a batch of N elements that are not objects returns
\* exactly N of them.
C24_EachInvalidElementAnswered ==
    (SentBatch /\ UndeterminablePositions # {}) =>
        /\ ReturnedArray
        /\ Cardinality(NullIdRejections) >= Cardinality(UndeterminablePositions)
        /\ (\A i \in 1..Len(Elements) : Elements[i].type # "dict") =>
                /\ Len(Responses) = Len(Elements)
                /\ NullIdRejections = 1..Len(Responses)

-----------------------------------------------------------------------------
(* C25 *)

\* The error object of r has a member data that is an object with a member
\* details that is a str.
HasDetails(r) ==
    /\ In("data", Get(r, "error")) /\ Get(Get(r, "error"), "data").type = "dict"
    /\ In("details", Get(Get(r, "error"), "data"))
    /\ Get(Get(Get(r, "error"), "data"), "details").type = "str"

\* C25: every Invalid Request error object carries error.data.details, which
\* names the envelope rule that failed.
C25_InvalidRequestDetails ==
    pc = "returned" =>
        \A r \in ResponseObjects : IsError(r, 0 - 32600) => HasDetails(r)

-----------------------------------------------------------------------------
(* C26 *)

\* call_py got the text of a request object that names a method that is not
\* registered.
Unregistered ==
    /\ SentText /\ Rdata.type = "dict"
    /\ In("method", Rdata) /\ Get(Rdata, "method").type = "str"
    /\ Get(Rdata, "method") # JStr("")
    /\ ~Registered(Rdata)

\* The id member is an object or an array.
InvalidIdType == In("id", Rdata) /\ Get(Rdata, "id").type \in {"list", "dict"}

\* The params member is a string, a number or a boolean.
InvalidParamsType ==
    In("params", Rdata) /\ Get(Rdata, "params").type \in {"str", "int", "float", "bool"}

\* C26: a request that names an unregistered method and has an invalid id
\* type or an invalid params type gets Invalid Request (-32600), not Method
\* not found.
C26_EnvelopeBeforeLookup ==
    (Unregistered /\ (InvalidIdType \/ InvalidParamsType)) =>
        (ReturnedObject /\ IsError(result.value, 0 - 32600))

-----------------------------------------------------------------------------
(* C27 *)

\* call_py got the text of a batch of one element.
LoneElement == SentBatch /\ Len(Elements) = 1

\* What call_py does with the text of that element alone.
Alone == call_py(Text(Elements[1]), metadata)

\* C27: a batch of one request yields the array of the one response that the
\* request yields when it is sent alone, and no response when the request
\* alone yields none.
C27_LoneBatchAsSingle ==
    LoneElement =>
        IF Alone.value = JNull THEN Returned(JNull)
        ELSE Returned(JList(<<Alone.value>>))

-----------------------------------------------------------------------------
(* C28 *)

\* call_py or call has returned or raised.
AnyCallDone == pc \in {"returned", "call_returned"}

\* The request objects of the last call: the object, or the elements of the
\* batch.
RequestObjects ==
    IF Rdata.type = "list" THEN {Rdata.items[k] : k \in 1..Len(Rdata.items)}
    ELSE {Rdata}

\* What the last call does when it is given the metadata m instead.
Redo(m) == IF pc = "returned" THEN call_py(jsondata, m) ELSE call(jsondata, m)

\* The methods and params of a sequence of invocations.
Routing(inv) == [k \in 1..Len(inv) |-> <<inv[k].method, inv[k].params>>]

\* The call o returns or raises what the last call did, after the same
\* invocations but for their metadata.
SameOutcome(o) ==
    /\ o.kind = result.kind
    /\ o.value = result.value
    /\ Routing(o.calls) = Routing(calls)

\* C28: every invoked handler receives the params of its request and the
\* metadata of the call, the same in the whole batch; and with another
\* metadata the call invokes the same handlers with the same params and
\* returns the same value.
C28_MetadataPassThrough ==
    AnyCallDone =>
        /\ \A k \in 1..Len(calls) :
                /\ calls[k].metadata = metadata
                /\ \E e \in RequestObjects :
                        /\ e.type = "dict" /\ In("method", e)
                        /\ calls[k].method = Get(e, "method").str
                        /\ calls[k].params = ParamsOf(e)
        /\ \A m \in Metadata : SameOutcome(Redo(m))

\* A batch of two requests with params, both dispatched with a metadata that
\* is not None.
C28_Witness ==
    /\ SentBatch /\ Len(calls) = 2 /\ metadata # JNull
    /\ calls[1].metadata = metadata /\ calls[2].metadata = metadata
    /\ calls[1].params # JNull /\ calls[1].method # calls[2].method

-----------------------------------------------------------------------------
(* C29 *)

\* The request elements of the last call, in order: the elements of the
\* batch, or the one request.
RequestElements == IF Rdata.type = "list" THEN Rdata.items ELSE <<Rdata>>

\* The element passes the envelope checks, names a registered method and has
\* params that the schema of the method accepts.
Dispatchable(e) == e.type = "dict" /\ ~Rejected(e) /\ ParamsAccepted(e)

\* The invocation c is the one of element e.
InvocationOf(c, e) == c.method = MethodOf(e) /\ c.params = ParamsOf(e)

\* Every invocation belongs to an element of its own that passes the checks.
AtMostOnceAfterChecks ==
    \E f \in [1..Len(calls) -> 1..Len(RequestElements)] :
        /\ \A a, b \in 1..Len(calls) : a < b => f[a] < f[b]
        /\ \A a \in 1..Len(calls) :
                /\ Dispatchable(RequestElements[f[a]])
                /\ InvocationOf(calls[a], RequestElements[f[a]])

\* Every notification that passes the checks has its handler invoked.
NotificationsInvoked ==
    \A i \in 1..Len(RequestElements) :
        (Dispatchable(RequestElements[i]) /\ ~In("id", RequestElements[i])) =>
            \E k \in 1..Len(calls) : InvocationOf(calls[k], RequestElements[i])

\* C29: a handler is invoked at most once per request element, and only for
\* an element that passes the envelope checks, names a registered method and
\* has params that the schema accepts; a notification that passes these
\* checks has its handler invoked.
C29_InvokedOnceAfterChecks ==
    SentText => (AtMostOnceAfterChecks /\ NotificationsInvoked)

-----------------------------------------------------------------------------
(* C30 *)

\* call_py got the text of a request object whose id is 0 or "".
FalsyId ==
    /\ SentText /\ Rdata.type = "dict"
    /\ In("id", Rdata) /\ Get(Rdata, "id") \in {JInt(0), JStr("")}

\* What call_py does with the text of the same request with the id 1.
WithId1 == call_py(Text(DictSet(Rdata, "id", JInt(1))), metadata)

\* C30: a request with the id 0 or "" gets a response exactly when the same
\* request with the id 1 gets one.
C30_IdValueIrrelevant ==
    FalsyId => (Returned(JNull) <=> WithId1.value = JNull)

=============================================================================
